---- MODULE Spec2Model ----
(***************************************************************************)
(* State-machine model of the browser-mediated streaming bridge of         *)
(* chatgpt_wrapper: the asyncio client (asyncChatGPT.py) and the           *)
(* synchronous client (chatgpt.py).                                        *)
(*                                                                         *)
(* Texts are sequences over Alphabet.  Python's None is the string "None"  *)
(* for identifiers and the one-element sequence NoneMsg for texts.         *)
(***************************************************************************)
EXTENDS Integers, Sequences, FiniteSets, TLC

\* ------------------------------------------------------------- bounds
Callers == {"A", "B"}          \* concurrent tasks, each with its own AsyncChatGPT instance
Alphabet == {"a", "b"}
MaxMsgLen == 2                 \* longest text the service streams
MaxChunks == 2                 \* chunks a call is followed for
MaxBudget == 2                 \* largest retry budget a caller passes explicitly
MaxLate == 2                   \* iterations counted after the timeout has passed
MaxNew == 1                    \* new_conversation calls a client is followed for
MaxTurns == 1                  \* further turns a client is used for after its first

\* ------------------------------------------------------------- program constants
DefaultRetry == 2              \* remaining_retry=2, the default of async_ask_stream and async_ask

NoneMsg == <<"None">>
\* The notices the synchronous client yields in place of a reply.
NotUsableNotice == <<"NotUsable">>
FailedNotice == <<"FailedToRead">>
Msgs == UNION {[1..n -> Alphabet] : n \in 0..MaxMsgLen}
MsgIds == {"m1"}
ConvIds == {"c1"}

\* What a stream div can hold (its innerHTML, seen through base64/json decoding).
EmptyContent == [kind |-> "empty", msg |-> <<>>, id |-> "None", conv |-> "None"]
BadEvent == [kind |-> "bad", msg |-> <<>>, id |-> "None", conv |-> "None"]
\* The JSON text null: it decodes, to None (`if event is not None`, line 323).
NullEvent == [kind |-> "null", msg |-> <<>>, id |-> "None", conv |-> "None"]
GoodEvents == [kind : {"event"}, msg : Msgs, id : MsgIds, conv : ConvIds]
Events == GoodEvents \cup {BadEvent, NullEvent}

\* The shared session: {} / a dict without accessToken / a dict whose
\* accessToken is "" / a dict with a non-empty accessToken.
SessionValues == {"empty", "noToken", "emptyToken", "token"}
\* The document of the session endpoint at a refresh, as the parse sees it:
\* open is contents.find("{") (-1 when there is none), close the index of the
\* last "}" (-1 when there is none), body what json.loads makes of a text that
\* runs from a "{" to a later "}".
Docs == [open : {-1, 1}, close : {-1, 0, 2}, body : SessionValues \cup {"invalid"}]

\* `"accessToken" in session`: the key is there, whatever its value.
HasToken(s) == s \in {"emptyToken", "token"}

Errors == {"NetworkError", "NotLoggedInError", "ChatGPTResponseError"}

\* The events the service sends when the text does not matter: a malformed one
\* and a well-formed one.
PlainEvents == {e \in Events : e.kind = "bad" \/ e.msg = <<"a">>}

VARIABLES
    \* class-level state of AsyncChatGPT, shared by every instance
    locked,              \* asyncio.Lock: TRUE while some frame is inside `async with`
    enabled,             \* AsyncChatGPT.enabled
    session,             \* AsyncChatGPT.session
    \* the shared page
    loc,                 \* where the page is: "chat", "session" or "denied"
    streamDivs,          \* stream divs in DOM order: [content, open (its xhr is not finished)]
    eofDivs,             \* number of eof divs in the DOM
    orphans,             \* unfinished xhrs whose stream div was removed from the DOM
    \* per caller
    pc,                  \* position of the caller's task
    kind,                \* "ask" (async_ask) or "stream" (async_ask_stream directly)
    askRetry,            \* remaining_retry of async_ask
    retry,               \* remaining_retry of the innermost async_ask_stream frame
    frames,              \* suspended outer async_ask_stream frames (each inside `async with`)
    ret,                 \* where async_refresh_session returns to
    last_event_msg,
    full_event_message,
    eof_seen,            \* len(eof_datas) > 0 in the current iteration
    expired,             \* time.time() - start_time > self.timeout
    response,            \* chunks yielded to the consumer by the current call
    parent_message_id,
    conversation_id,
    result,              \* how the call ended
    conversation_title_set,  \* ChatGPT.conversation_title_set (synchronous client)
    \* history variables
    hist                 \* per caller: facts about the run the properties speak of

shared == <<locked, enabled, session>>
page == <<loc, streamDivs, eofDivs, orphans>>
locals == <<last_event_msg, full_event_message, eof_seen, expired>>
conv == <<parent_message_id, conversation_id, conversation_title_set>>
vars == <<locked, enabled, session, loc, streamDivs, eofDivs, orphans, pc, kind,
          askRetry, retry, frames, ret, last_event_msg, full_event_message,
          eof_seen, expired, response, parent_message_id, conversation_id,
          result, conversation_title_set, hist>>

\* ------------------------------------------------------------- text helpers
IsPrefix(s, t) == Len(s) <= Len(t) /\ SubSeq(t, 1, Len(s)) = s

\* full_event_message[len(last_event_msg):]
Diff(full, last) == SubSeq(full, Len(last) + 1, Len(full))

RECURSIVE Join(_)
\* ''.join(response)
Join(chunks) == IF chunks = <<>> THEN <<>> ELSE Head(chunks) \o Join(Tail(chunks))

Hist0 == [budget0 |-> 0, attempts |-> 0, timeouts |-> 0, injectFails |-> 0, askCalls |-> 0,
          empties |-> 0, askRefreshes |-> 0, pmid0 |-> "None", conv0 |-> "None",
          mono |-> TRUE, final |-> NoneMsg, noCredential |-> FALSE,
          decodeFailed |-> FALSE, titleRequests |-> 0, late |-> 0, sync |-> FALSE,
          news |-> 0, afterNew |-> FALSE, resetFrom |-> "None",
          reqPmid |-> "None", reqConv |-> "None", turns |-> 0,
          threadPmid |-> "u0", threadConv |-> "None", titlesOk |-> 0,
          idled |-> TRUE, doc |-> "none"]

\* The identifiers uuid.uuid4() hands to new_conversation, in order.
Uuids == <<"u1", "u2", "u3">>

\* The record of a call that starts: what is known of the client is kept.
TurnHist(c, n) ==
    [Hist0 EXCEPT !.budget0 = n, !.pmid0 = parent_message_id[c],
                  !.conv0 = conversation_id[c], !.sync = hist[c].sync,
                  !.news = hist[c].news, !.afterNew = hist[c].afterNew,
                  !.resetFrom = hist[c].resetFrom,
                  !.reqPmid = hist[c].reqPmid, !.reqConv = hist[c].reqConv,
                  !.turns = hist[c].turns, !.threadPmid = hist[c].threadPmid,
                  !.threadConv = hist[c].threadConv, !.titlesOk = hist[c].titlesOk]

Init ==
    /\ locked = FALSE
    /\ enabled = TRUE
    /\ session = "empty"
    /\ loc = "chat"
    /\ streamDivs = <<>>
    /\ eofDivs = 0
    /\ orphans = 0
    /\ pc = [c \in Callers |-> "idle"]
    /\ kind = [c \in Callers |-> "stream"]
    /\ askRetry = [c \in Callers |-> 0]
    /\ retry = [c \in Callers |-> 0]
    /\ frames = [c \in Callers |-> 0]
    /\ ret = [c \in Callers |-> "none"]
    /\ last_event_msg = [c \in Callers |-> <<>>]
    /\ full_event_message = [c \in Callers |-> NoneMsg]
    /\ eof_seen = [c \in Callers |-> FALSE]
    /\ expired = [c \in Callers |-> FALSE]
    /\ response = [c \in Callers |-> <<>>]
    /\ parent_message_id = [c \in Callers |-> "u0"]
    /\ conversation_id = [c \in Callers |-> "None"]
    /\ result = [c \in Callers |-> "none"]
    /\ conversation_title_set = [c \in Callers |-> FALSE]
    /\ hist = [c \in Callers |-> Hist0]

\* ------------------------------------------------------------- control helpers
\* The async generator of caller c ends (return, exception or aclose): every frame
\* of c leaves its `async with AsyncChatGPT.lock` block, which releases the lock.
\* A normal end inside async_ask hands the chunks to line 512.  The locals of
\* the polling loop end with the frame.
Exit(c, res) ==
    /\ locked' = FALSE
    /\ last_event_msg' = [last_event_msg EXCEPT ![c] = <<>>]
    /\ full_event_message' = [full_event_message EXCEPT ![c] = NoneMsg]
    /\ eof_seen' = [eof_seen EXCEPT ![c] = FALSE]
    /\ expired' = [expired EXCEPT ![c] = FALSE]
    /\ frames' = [frames EXCEPT ![c] = 0]
    /\ pc' = [pc EXCEPT ![c] = IF res = "eof" /\ kind[c] = "ask" THEN "collect" ELSE "done"]
    /\ result' = [result EXCEPT ![c] = IF res = "eof" /\ kind[c] = "ask" THEN @ ELSE res]

Goto(c, p) ==
    /\ pc' = [pc EXCEPT ![c] = p]
    /\ UNCHANGED <<locked, frames, result>>

\* The stream div the injected code of caller c creates (lines 248-250), empty,
\* with its xhr open.
NewDiv(c) == [content |-> EmptyContent, open |-> TRUE, owner |-> c]

\* The request of lines 231-244 carries the client's conversation_id and
\* parent_message_id; h records the one of the first injection that follows a
\* new_conversation.
Injected(c, h) ==
    [h EXCEPT !.attempts = @ + 1,
              !.idled = TRUE,
              !.afterNew = FALSE,
              !.reqPmid = IF h.afterNew THEN parent_message_id[c] ELSE @,
              !.reqConv = IF h.afterNew THEN conversation_id[c] ELSE @]

\* A navigation of the page replaces the document: every marker and xhr is gone.
Navigate(to) ==
    /\ loc' = to
    /\ streamDivs' = <<>>
    /\ eofDivs' = 0
    /\ orphans' = 0

\* A lock that lets every task in.
CanAcquireAlways == TRUE

\* `async with AsyncChatGPT.lock` is entered only when the lock is free.
CanAcquire == ~locked

\* ------------------------------------------------------------- callers
\* A task calls async_ask_stream(prompt, remaining_retry=n) and consumes it.
StartStream(c, n) ==
    /\ pc[c] = "idle"
    /\ kind' = [kind EXCEPT ![c] = "stream"]
    /\ retry' = [retry EXCEPT ![c] = n]
    /\ response' = [response EXCEPT ![c] = <<>>]
    /\ ~hist[c].sync
    /\ hist' = [hist EXCEPT ![c] = TurnHist(c, n)]
    /\ Goto(c, "acquire")
    /\ UNCHANGED <<enabled, session, page, askRetry, ret, locals, conv>>

\* A task calls async_ask(message, remaining_retry=n).
StartAsk(c, n) ==
    /\ pc[c] = "idle"
    /\ kind' = [kind EXCEPT ![c] = "ask"]
    /\ askRetry' = [askRetry EXCEPT ![c] = n]
    /\ ~hist[c].sync
    /\ hist' = [hist EXCEPT ![c] = TurnHist(c, n)]
    /\ Goto(c, "ask")
    /\ UNCHANGED <<enabled, session, page, retry, ret, locals, response, conv>>

\* async_ask, lines 507-511: budget check, then a fresh async_ask_stream(message).
Ask(c) ==
    /\ pc[c] = "ask"
    /\ IF askRetry[c] = 0
       THEN /\ pc' = [pc EXCEPT ![c] = "done"]
            /\ result' = [result EXCEPT ![c] = "ChatGPTResponseError"]
            /\ UNCHANGED <<locked, frames, retry, response, hist>>
       ELSE /\ retry' = [retry EXCEPT ![c] = DefaultRetry]
            /\ response' = [response EXCEPT ![c] = <<>>]
            /\ hist' = [hist EXCEPT ![c].askCalls = @ + 1, ![c].attempts = 0,
                                    ![c].timeouts = 0, ![c].injectFails = 0,
                                    ![c].pmid0 = parent_message_id[c],
                                    ![c].conv0 = conversation_id[c]]
            /\ Goto(c, "acquire")
    /\ UNCHANGED <<enabled, session, page, kind, askRetry, ret, locals, conv>>

\* async_ask, lines 512-516: a non-empty list of chunks is the reply, an empty
\* one starts a session refresh.
Collect(c) ==
    /\ pc[c] = "collect"
    /\ IF Len(response[c]) # 0
       THEN /\ pc' = [pc EXCEPT ![c] = "done"]
            /\ result' = [result EXCEPT ![c] = "value"]
            /\ UNCHANGED <<ret, hist>>
       ELSE /\ pc' = [pc EXCEPT ![c] = "refresh_goto"]
            /\ ret' = [ret EXCEPT ![c] = "ask_again"]
            /\ hist' = [hist EXCEPT ![c].empties = @ + 1]
            /\ UNCHANGED result
    /\ UNCHANGED <<shared, page, kind, askRetry, retry, frames, locals, response, conv>>

\* async_ask, line 517: the recursive call with remaining_retry - 1.
AskAgain(c) ==
    /\ pc[c] = "ask_again"
    /\ askRetry' = [askRetry EXCEPT ![c] = @ - 1]
    /\ hist' = [hist EXCEPT ![c].askRefreshes = @ + 1]
    /\ Goto(c, "ask")
    /\ UNCHANGED <<enabled, session, page, kind, retry, ret, locals, response, conv>>

\* ------------------------------------------------------------- async_ask_stream
\* line 213: `async with AsyncChatGPT.lock`
Acquire(c) ==
    /\ pc[c] = "acquire"
    /\ CanAcquire
    /\ locked' = TRUE
    /\ pc' = [pc EXCEPT ![c] = "check"]
    /\ UNCHANGED <<enabled, session, page, kind, askRetry, retry, frames, ret, locals,
                   response, conv, result, hist>>

\* lines 221-229: the credential check.
CheckToken(c) ==
    IF HasToken(session)
    THEN Goto(c, "inject") /\ UNCHANGED <<locals, hist>>
    ELSE Exit(c, "NotLoggedInError") /\ hist' = [hist EXCEPT ![c].noCredential = TRUE]

\* A budget test that never fires.
BudgetNeverExhausted(c) == FALSE

\* line 215: `if remaining_retry==0`
BudgetExhausted(c) == retry[c] = 0

\* lines 215-229: budget check, refresh of an empty session, credential check.
Check(c) ==
    /\ pc[c] = "check"
    /\ IF BudgetExhausted(c)
       THEN Exit(c, "NetworkError") /\ UNCHANGED <<ret, hist>>
       ELSE IF session = "empty"
            THEN /\ Goto(c, "refresh_goto")
                 /\ ret' = [ret EXCEPT ![c] = "check2"]
                 /\ UNCHANGED <<locals, hist>>
            ELSE CheckToken(c) /\ UNCHANGED ret
    /\ UNCHANGED <<enabled, session, page, kind, askRetry, retry, response, conv>>

\* lines 221-229, reached after the refresh of line 219.
Check2(c) ==
    /\ pc[c] = "check2"
    /\ CheckToken(c)
    /\ UNCHANGED <<enabled, session, page, kind, askRetry, retry, ret, response, conv>>

\* lines 296-307: page.evaluate(code) creates the stream div and sends the xhr, or
\* throws; then the locals of the polling loop are set.
Inject(c) ==
    /\ pc[c] = "inject"
    /\ \E ok \in BOOLEAN :
         IF ok
         THEN /\ streamDivs' = Append(streamDivs, NewDiv(c))
              /\ last_event_msg' = [last_event_msg EXCEPT ![c] = <<>>]
              /\ full_event_message' = [full_event_message EXCEPT ![c] = NoneMsg]
              /\ expired' = [expired EXCEPT ![c] = FALSE]
              /\ hist' = [hist EXCEPT ![c] = Injected(c, [@ EXCEPT !.mono = TRUE,
                                                                  !.final = NoneMsg,
                                                                  !.late = 0])]
              /\ Goto(c, "poll")
              /\ UNCHANGED <<ret, eof_seen>>
         ELSE /\ ret' = [ret EXCEPT ![c] = "retry_inject"]
              /\ hist' = [hist EXCEPT ![c].injectFails = @ + 1]
              /\ Goto(c, "refresh_goto")
              /\ UNCHANGED <<streamDivs, locals>>
    /\ UNCHANGED <<enabled, session, loc, eofDivs, orphans, kind, askRetry, retry,
                   response, conv>>

\* line 301: async_ask_stream(prompt), from inside the `async with` block.
RetryInject(c) ==
    /\ pc[c] = "retry_inject"
    /\ frames' = [frames EXCEPT ![c] = @ + 1]
    /\ retry' = [retry EXCEPT ![c] = DefaultRetry]
    /\ pc' = [pc EXCEPT ![c] = "acquire"]
    /\ UNCHANGED <<shared, page, kind, askRetry, ret, locals, response, conv, result, hist>>

\* line 354: async_ask_stream(prompt, remaining_retry - 1), from inside the block.
RetryTimeout(c) ==
    /\ pc[c] = "retry_timeout"
    /\ frames' = [frames EXCEPT ![c] = @ + 1]
    /\ retry' = [retry EXCEPT ![c] = @ - 1]
    /\ pc' = [pc EXCEPT ![c] = "acquire"]
    /\ UNCHANGED <<shared, page, kind, askRetry, ret, locals, response, conv, result, hist>>

\* The clock passes self.timeout while the attempt polls (the loop reads the
\* clock at its head only, line 308).
Tick(c) ==
    /\ pc[c] = "poll"
    /\ ~expired[c]
    /\ expired' = [expired EXCEPT ![c] = TRUE]
    /\ UNCHANGED <<shared, page, pc, kind, askRetry, retry, frames, ret, last_event_msg,
                   full_event_message, eof_seen, response, conv, result, hist>>

\* The iterations of the current polling loop that started after the clock had
\* passed self.timeout, this one included (counted up to MaxLate).
LateCount(c) ==
    IF expired[c] /\ hist[c].late < MaxLate THEN hist[c].late + 1 ELSE hist[c].late

\* lines 308-309 and 350-353: the loop condition, then the eof query; the else
\* branch of the loop starts the refresh of the timeout retry.
PollEof(c) ==
    /\ pc[c] = "poll"
    /\ IF ~expired[c] \/ full_event_message[c] # NoneMsg
       THEN /\ eof_seen' = [eof_seen EXCEPT ![c] = eofDivs > 0]
            /\ hist' = [hist EXCEPT ![c].late = LateCount(c)]
            /\ Goto(c, "poll_stream")
            /\ UNCHANGED ret
       ELSE /\ ret' = [ret EXCEPT ![c] = "retry_timeout"]
            /\ hist' = [hist EXCEPT ![c].timeouts = @ + 1]
            /\ Goto(c, "refresh_goto")
            /\ UNCHANGED eof_seen
    /\ UNCHANGED <<enabled, session, page, kind, askRetry, retry, last_event_msg,
                   full_event_message, expired, response, conv>>

\* The text a polling iteration takes from the first stream div (lines 317-328):
\* None for an empty div or an event that is null, the event's text otherwise.
ReadMessage(content) == IF content.kind = "event" THEN content.msg ELSE NoneMsg

\* lines 311-349: read the first stream div, update the conversation state, yield
\* the delta, leave the loop on eof or go round again.  A consumer of the bare
\* generator may stop iterating at a yield.
PollStream(c) ==
    /\ pc[c] = "poll_stream"
    /\ Len(response[c]) < MaxChunks
    /\ IF Len(streamDivs) = 0
       THEN /\ Goto(c, "poll")
            /\ hist' = [hist EXCEPT ![c].idled = FALSE]
            /\ UNCHANGED <<locals, response, conv>>
       ELSE LET content == streamDivs[1].content
                full == ReadMessage(content)
            IN IF content.kind = "bad"
               THEN /\ Exit(c, "ChatGPTResponseError")
                    /\ hist' = [hist EXCEPT ![c].decodeFailed = TRUE]
                    /\ UNCHANGED <<response, conv>>
               ELSE /\ full_event_message' = [full_event_message EXCEPT ![c] = full]
                    /\ UNCHANGED <<eof_seen, expired>>
                    /\ IF full # NoneMsg
                       THEN /\ parent_message_id' = [parent_message_id EXCEPT ![c] = content.id]
                            /\ conversation_id' = [conversation_id EXCEPT ![c] = content.conv]
                            /\ UNCHANGED conversation_title_set
                            /\ last_event_msg' = [last_event_msg EXCEPT ![c] = full]
                            /\ response' = [response EXCEPT ![c] =
                                              Append(@, Diff(full, last_event_msg[c]))]
                            /\ hist' = [hist EXCEPT
                                          ![c].mono = @ /\ IsPrefix(last_event_msg[c], full),
                                          ![c].final = full,
                                          ![c].idled = TRUE]
                            /\ \E stop \in BOOLEAN :
                                 IF stop /\ kind[c] = "stream"
                                 THEN Goto(c, "suspended")
                                 ELSE Goto(c, IF eof_seen[c] THEN "cleanup" ELSE "poll")
                       ELSE /\ Goto(c, IF eof_seen[c] THEN "cleanup" ELSE "poll")
                            /\ hist' = [hist EXCEPT ![c].idled = TRUE]
                            /\ UNCHANGED <<last_event_msg, response, conv>>
    /\ UNCHANGED <<enabled, session, page, kind, askRetry, retry, ret>>

\* aclose() of a generator suspended at line 342: GeneratorExit leaves the block.
Close(c) ==
    /\ pc[c] = "suspended"
    /\ Exit(c, "closed")
    /\ UNCHANGED <<enabled, session, page, kind, askRetry, retry, ret, response,
                   conv, hist>>

\* A turn of c has ended by eof: the identifiers of the last event it decoded
\* (lines 324-325; those the client had, when it decoded none) are the thread
\* the next request is to continue.
Threaded(c, h) ==
    [h EXCEPT !.threadPmid = parent_message_id[c], !.threadConv = conversation_id[c]]

\* lines 358 and 184-189: remove the first stream div, then the first eof div; an
\* exception of either evaluate is logged and ends the cleanup.
Cleanup(c) ==
    /\ pc[c] = "cleanup"
    /\ IF Len(streamDivs) = 0
       THEN UNCHANGED <<streamDivs, eofDivs, orphans>>
       ELSE /\ streamDivs' = Tail(streamDivs)
            /\ orphans' = orphans + (IF streamDivs[1].open THEN 1 ELSE 0)
            /\ eofDivs' = IF eofDivs > 0 THEN eofDivs - 1 ELSE 0
    /\ Exit(c, "eof")
    /\ hist' = [hist EXCEPT ![c] = Threaded(c, @)]
    /\ UNCHANGED <<enabled, session, loc, kind, askRetry, retry, ret, response,
                   conv>>

\* ------------------------------------------------------------- async_refresh_session
\* line 155: page.goto(session endpoint)
RefreshGoto(c) ==
    /\ pc[c] = "refresh_goto"
    /\ Navigate("session")
    /\ Goto(c, "refresh_parse")
    /\ UNCHANGED <<enabled, session, kind, askRetry, retry, ret, locals, response, conv,
                   hist>>

\* A json.loads that takes the body whatever the slice is.
JsonLoadsAny(doc) == doc.body

\* lines 176-178: json.loads(contents[start:end+1]); the slice is empty when the
\* last "}" comes before the first "{".
JsonLoads(doc) ==
    IF doc.close < doc.open \/ doc.body = "invalid" THEN "JSONDecodeError" ELSE doc.body

\* lines 166-178: the parsed object, or the JSONDecodeError raised on the way.
Parse(doc) ==
    IF doc.open < 0 THEN "JSONDecodeError"
    ELSE IF doc.close < 0 THEN "JSONDecodeError"
    ELSE JsonLoads(doc)

\* A parse that leaves a half-written session behind when it fails.
ParseSessionPartial(doc, old) ==
    IF Parse(doc) = "JSONDecodeError" THEN "partial" ELSE Parse(doc)

\* What lines 161-181 make of the document: the parsed object, or, the
\* JSONDecodeError being caught at line 180, the old session.
ParseSession(doc, old) == IF Parse(doc) = "JSONDecodeError" THEN old ELSE Parse(doc)

\* What the document holds: a JSON object between its first "{" and its last
\* "}", or none.
DocObject(doc) ==
    IF doc.open >= 0 /\ doc.close > doc.open /\ doc.body \in SessionValues
    THEN doc.body
    ELSE "unparsable"

\* lines 161-181
RefreshParse(c) ==
    /\ pc[c] = "refresh_parse"
    /\ \E doc \in Docs :
         /\ session' = ParseSession(doc, session)
         /\ hist' = [hist EXCEPT ![c].doc = DocObject(doc)]
    /\ Goto(c, "start_goto")
    /\ UNCHANGED <<enabled, page, kind, askRetry, retry, ret, locals, response, conv>>

\* Where _start_browser continues after the cooldown (lines 134-136): it returns
\* the coroutine object of a second _start_browser() without awaiting it, so the
\* caller of _start_browser goes on.
AfterCooldown(c) == ret[c]

\* _start_browser, lines 125-132: load the site; on an access-denied page clear
\* the enabled flag and sleep.
StartGoto(c) ==
    /\ pc[c] = "start_goto"
    /\ \E to \in {"chat", "denied"} :
         /\ Navigate(to)
         /\ IF to = "denied"
            THEN enabled' = FALSE /\ Goto(c, "cooldown")
            ELSE UNCHANGED enabled /\ Goto(c, ret[c])
    /\ hist' = [hist EXCEPT ![c].doc = "none"]
    /\ UNCHANGED <<session, kind, askRetry, retry, ret, locals, response, conv>>

\* _start_browser, lines 133-136: the sleep is over.
CooldownEnd(c) ==
    /\ pc[c] = "cooldown"
    /\ enabled' = TRUE
    /\ Goto(c, AfterCooldown(c))
    /\ UNCHANGED <<session, page, kind, askRetry, retry, ret, locals, response, conv, hist>>

\* ------------------------------------------------------------- the injected page code
\* xhr.onreadystatechange with readyState 3 (lines 257-282): a complete event is
\* written to the xhr's own stream div.
XhrWrite(i, evs) ==
    /\ i \in 1..Len(streamDivs)
    /\ streamDivs[i].open
    /\ \E ev \in evs : streamDivs' = [streamDivs EXCEPT ![i].content = ev]
    /\ UNCHANGED <<shared, loc, eofDivs, orphans, pc, kind, askRetry, retry, frames, ret,
                   locals, response, conv, result, hist>>

\* readyState 4 (lines 257-287): the last event, if any, is written and an eof
\* div is appended.
XhrDone(i, evs) ==
    /\ i \in 1..Len(streamDivs)
    /\ streamDivs[i].open
    /\ \E ev \in evs \cup {streamDivs[i].content} :
         streamDivs' = [streamDivs EXCEPT ![i].content = ev, ![i].open = FALSE]
    /\ eofDivs' = eofDivs + 1
    /\ UNCHANGED <<shared, loc, orphans, pc, kind, askRetry, retry, frames, ret,
                   locals, response, conv, result, hist>>

\* readyState 4 of an xhr whose stream div is no longer in the document.
OrphanDone ==
    /\ orphans > 0
    /\ orphans' = orphans - 1
    /\ eofDivs' = eofDivs + 1
    /\ UNCHANGED <<shared, loc, streamDivs, pc, kind, askRetry, retry, frames, ret,
                   locals, response, conv, result, hist>>

\* ------------------------------------------------------------- ChatGPT (synchronous)
\* self.browser.refresh_session() (lines 181-182) is a call into the Browser
\* class, which is not part of these sources: any session may come out of it,
\* and the page may or may not have been reloaded.
RefreshOutcomes == SessionValues

\* The generator of ask_stream ends: ask (lines 319-324) returns the joined
\* chunks, or its fixed reply when there is none.
SyncEnd(c, res) ==
    /\ pc' = [pc EXCEPT ![c] = "done"]
    /\ result' = [result EXCEPT ![c] = IF res = "eof"
                                         THEN (IF kind[c] = "ask" THEN "value" ELSE "completed")
                                         ELSE res]
    /\ last_event_msg' = [last_event_msg EXCEPT ![c] = <<>>]
    /\ full_event_message' = [full_event_message EXCEPT ![c] = NoneMsg]
    /\ eof_seen' = [eof_seen EXCEPT ![c] = FALSE]
    /\ expired' = [expired EXCEPT ![c] = FALSE]
    /\ UNCHANGED <<locked, frames>>

SyncGoto(c, p) ==
    /\ pc' = [pc EXCEPT ![c] = p]
    /\ UNCHANGED <<locked, frames, result>>

\* ask(message) (k = "ask") or ask_stream(prompt) (k = "stream") is called.
SyncStart(c, k) ==
    /\ pc[c] = "idle"
    /\ kind' = [kind EXCEPT ![c] = k]
    /\ response' = [response EXCEPT ![c] = <<>>]
    /\ hist[c].sync \/ (hist[c].news = 0 /\ hist[c].turns = 0)
    /\ hist' = [hist EXCEPT ![c] = [TurnHist(c, 0) EXCEPT !.sync = TRUE]]
    /\ SyncGoto(c, "s_check")
    /\ UNCHANGED <<enabled, session, page, askRetry, retry, ret, locals, conv>>

\* ask_stream, lines 181-192: refresh a session without accessToken; when it
\* still has none, yield the notice and return.
SyncCheck(c) ==
    /\ pc[c] = "s_check"
    /\ \E new \in RefreshOutcomes, reloaded \in BOOLEAN :
         /\ IF ~HasToken(session)
            THEN /\ session' = new
                 /\ IF reloaded THEN Navigate("chat") ELSE UNCHANGED page
            ELSE UNCHANGED <<session, page>>
         /\ IF ~HasToken(session')
            THEN /\ response' = [response EXCEPT ![c] = Append(@, NotUsableNotice)]
                 /\ hist' = [hist EXCEPT ![c].noCredential = TRUE]
                 /\ SyncEnd(c, "eof")
            ELSE /\ SyncGoto(c, "s_inject")
                 /\ UNCHANGED <<response, hist, locals>>
    /\ UNCHANGED <<enabled, kind, askRetry, retry, ret, conv>>

\* ask_stream, lines 260-263: page.evaluate(code), not guarded.
SyncInject(c) ==
    /\ pc[c] = "s_inject"
    /\ \E ok \in BOOLEAN :
         IF ok
         THEN /\ streamDivs' = Append(streamDivs, NewDiv(c))
              /\ last_event_msg' = [last_event_msg EXCEPT ![c] = <<>>]
              /\ full_event_message' = [full_event_message EXCEPT ![c] = NoneMsg]
              /\ expired' = [expired EXCEPT ![c] = FALSE]
              /\ hist' = [hist EXCEPT ![c] = Injected(c, @)]
              /\ SyncGoto(c, "s_poll")
              /\ UNCHANGED eof_seen
         ELSE /\ SyncEnd(c, "PageError")
              /\ UNCHANGED <<streamDivs, hist>>
    /\ UNCHANGED <<enabled, session, loc, eofDivs, orphans, kind, askRetry, retry, ret,
                   response, conv>>

\* The clock passes self.timeout (read at line 301).
SyncTick(c) ==
    /\ pc[c] = "s_poll"
    /\ ~expired[c]
    /\ expired' = [expired EXCEPT ![c] = TRUE]
    /\ UNCHANGED <<shared, page, pc, kind, askRetry, retry, frames, ret, last_event_msg,
                   full_event_message, eof_seen, response, conv, result, hist>>

\* ask_stream, lines 264-265: `while True`, then the eof query.
SyncPollEof(c) ==
    /\ pc[c] = "s_poll"
    /\ eof_seen' = [eof_seen EXCEPT ![c] = eofDivs > 0]
    /\ hist' = [hist EXCEPT ![c].late = LateCount(c)]
    /\ SyncGoto(c, "s_poll_stream")
    /\ UNCHANGED <<enabled, session, page, kind, askRetry, retry, ret, last_event_msg,
                   full_event_message, expired, response, conv>>

\* ask_stream, lines 267-304: read the first stream div, update the
\* conversation state, yield the delta (or the notice of a decode failure), then
\* leave the loop on eof or on a timeout with no text in this iteration.
SyncPollStream(c) ==
    /\ pc[c] = "s_poll_stream"
    /\ Len(response[c]) < MaxChunks
    /\ IF Len(streamDivs) = 0
       THEN /\ SyncGoto(c, "s_poll")
            /\ hist' = [hist EXCEPT ![c].idled = FALSE]
            /\ UNCHANGED <<locals, response, conv>>
       ELSE LET content == streamDivs[1].content
                full == ReadMessage(content)
                leave == eof_seen[c] \/ (expired[c] /\ full = NoneMsg)
            IN IF content.kind = "bad"
               THEN /\ response' = [response EXCEPT ![c] = Append(@, FailedNotice)]
                    /\ full_event_message' = [full_event_message EXCEPT ![c] = NoneMsg]
                    /\ hist' = [hist EXCEPT ![c].decodeFailed = TRUE]
                    /\ SyncGoto(c, "s_finish")
                    /\ UNCHANGED <<last_event_msg, eof_seen, expired, conv>>
               ELSE /\ full_event_message' = [full_event_message EXCEPT ![c] = full]
                    /\ UNCHANGED <<eof_seen, expired>>
                    /\ SyncGoto(c, IF leave THEN "s_finish" ELSE "s_poll")
                    /\ IF full # NoneMsg
                       THEN /\ parent_message_id' = [parent_message_id EXCEPT ![c] = content.id]
                            /\ conversation_id' = [conversation_id EXCEPT ![c] = content.conv]
                            /\ UNCHANGED conversation_title_set
                            /\ last_event_msg' = [last_event_msg EXCEPT ![c] = full]
                            /\ response' = [response EXCEPT ![c] =
                                              Append(@, Diff(full, last_event_msg[c]))]
                            /\ hist' = [hist EXCEPT
                                          ![c].mono = @ /\ IsPrefix(last_event_msg[c], full),
                                          ![c].final = full,
                                          ![c].idled = TRUE]
                       ELSE /\ hist' = [hist EXCEPT ![c].idled = TRUE]
                            /\ UNCHANGED <<last_event_msg, response, conv>>
    /\ UNCHANGED <<enabled, session, page, kind, askRetry, retry, ret>>

\* A _gen_title that asks for a title whenever a conversation exists.
GenTitleAlways(c) == conversation_id[c] # "None"

\* _gen_title, lines 92-106: a request is sent when a conversation exists and
\* has no title yet; a successful one sets conversation_title_set.
GenTitleSends(c) == conversation_id[c] # "None" /\ ~conversation_title_set[c]

\* ask_stream has come to its end (lines 306-307): the turn counts as one that
\* returned its reply unless the notice of a decode failure was yielded.
SyncThreaded(c, h) == IF h.decodeFailed THEN h ELSE Threaded(c, h)

\* ask_stream, lines 306-307: _cleanup_divs (lines 54-56, not guarded: removing
\* an absent div throws out of ask_stream), then _gen_title.
SyncFinish(c) ==
    /\ pc[c] = "s_finish"
    /\ IF Len(streamDivs) = 0
       THEN /\ SyncEnd(c, "PageError")
            /\ UNCHANGED <<streamDivs, eofDivs, orphans, conversation_title_set, hist>>
       ELSE /\ streamDivs' = Tail(streamDivs)
            /\ orphans' = orphans + (IF streamDivs[1].open THEN 1 ELSE 0)
            /\ IF eofDivs = 0
               THEN /\ SyncEnd(c, "PageError")
                    /\ UNCHANGED <<eofDivs, conversation_title_set, hist>>
               ELSE LET empty == IF kind[c] = "ask" /\ response[c] = <<>> THEN 1 ELSE 0
                    IN /\ eofDivs' = eofDivs - 1
                       /\ SyncEnd(c, "eof")
                       /\ IF GenTitleSends(c)
                          THEN \E ok \in BOOLEAN :
                                 /\ conversation_title_set' =
                                        [conversation_title_set EXCEPT ![c] = ok]
                                 /\ hist' = [hist EXCEPT ![c] =
                                               SyncThreaded(c, [@ EXCEPT
                                                   !.titleRequests = @ + 1,
                                                   !.titlesOk = @ + (IF ok THEN 1 ELSE 0),
                                                   !.empties = @ + empty])]
                          ELSE /\ hist' = [hist EXCEPT ![c] =
                                             SyncThreaded(c, [@ EXCEPT !.empties = @ + empty])]
                               /\ UNCHANGED conversation_title_set
    /\ UNCHANGED <<enabled, session, loc, kind, askRetry, retry, ret, response,
                   parent_message_id, conversation_id>>

\* ------------------------------------------------------------- new_conversation
\* A reset that keeps the conversation id.
KeptConversation(old) == old

\* `self.conversation_id = None`
ClearedConversation(old) == "None"

\* The record of a client that has just been reset.
ResetHist(c) ==
    [Hist0 EXCEPT !.sync = hist[c].sync, !.news = hist[c].news + 1, !.afterNew = TRUE,
                  !.pmid0 = parent_message_id[c], !.conv0 = conversation_id[c],
                  !.resetFrom = conversation_id[c], !.turns = hist[c].turns,
                  !.threadPmid = Uuids[hist[c].news + 1], !.threadConv = "None"]

\* async_new_conversation, lines 519-521, called between two turns of a client.
AsyncNewConversation(c) ==
    /\ pc[c] = "done"
    /\ ~hist[c].sync
    /\ hist[c].news < MaxNew
    /\ parent_message_id' = [parent_message_id EXCEPT ![c] = Uuids[hist[c].news + 1]]
    /\ conversation_id' = [conversation_id EXCEPT ![c] = ClearedConversation(@)]
    /\ hist' = [hist EXCEPT ![c] = ResetHist(c)]
    /\ UNCHANGED <<shared, page, pc, kind, askRetry, retry, frames, ret, locals, response,
                   result, conversation_title_set>>

\* ChatGPT.new_conversation, chatgpt.py lines 326-329, called between two turns.
SyncNewConversation(c) ==
    /\ pc[c] = "done"
    /\ hist[c].sync
    /\ hist[c].news < MaxNew
    /\ parent_message_id' = [parent_message_id EXCEPT ![c] = Uuids[hist[c].news + 1]]
    /\ conversation_id' = [conversation_id EXCEPT ![c] = ClearedConversation(@)]
    /\ conversation_title_set' = [conversation_title_set EXCEPT ![c] = FALSE]
    /\ hist' = [hist EXCEPT ![c] = ResetHist(c)]
    /\ UNCHANGED <<shared, page, pc, kind, askRetry, retry, frames, ret, locals, response,
                   result>>

\* The caller, done with one call, uses the same client for another turn.
NextTurn(c) ==
    /\ pc[c] = "done"
    /\ hist[c].turns < MaxTurns
    /\ hist' = [hist EXCEPT ![c].turns = @ + 1]
    /\ pc' = [pc EXCEPT ![c] = "idle"]
    /\ result' = [result EXCEPT ![c] = "none"]
    /\ UNCHANGED <<shared, page, kind, askRetry, retry, frames, ret, locals, response,
                   conv>>

\* Two tasks: A enters through async_ask_stream with any budget or through
\* async_ask with the default one, B through async_ask_stream with the default
\* budget; the texts are plain.
Next ==
    \/ \E n \in 0..MaxBudget : StartStream("A", n)
    \/ StartAsk("A", DefaultRetry)
    \/ StartStream("B", DefaultRetry)
    \/ \E c \in Callers : Ask(c)
    \/ \E c \in Callers : Collect(c)
    \/ \E c \in Callers : AskAgain(c)
    \/ \E c \in Callers : Acquire(c)
    \/ \E c \in Callers : Check(c)
    \/ \E c \in Callers : Check2(c)
    \/ \E c \in Callers : Inject(c)
    \/ \E c \in Callers : RetryInject(c)
    \/ \E c \in Callers : RetryTimeout(c)
    \/ \E c \in Callers : Tick(c)
    \/ \E c \in Callers : PollEof(c)
    \/ \E c \in Callers : PollStream(c)
    \/ \E c \in Callers : Close(c)
    \/ \E c \in Callers : Cleanup(c)
    \/ \E c \in Callers : RefreshGoto(c)
    \/ \E c \in Callers : RefreshParse(c)
    \/ \E c \in Callers : StartGoto(c)
    \/ \E c \in Callers : CooldownEnd(c)
    \/ \E i \in 1..2 : XhrWrite(i, PlainEvents)
    \/ \E i \in 1..2 : XhrDone(i, PlainEvents)
    \/ OrphanDone

Spec == Init /\ [][Next]_vars

\* One task and every text: async_ask_stream with the default budget, or the
\* synchronous client's ask or ask_stream.
NextSolo ==
    \/ StartStream("A", DefaultRetry)
    \/ \E k \in {"ask", "stream"} : SyncStart("A", k)
    \/ SyncCheck("A")
    \/ SyncInject("A")
    \/ SyncTick("A")
    \/ SyncPollEof("A")
    \/ SyncPollStream("A")
    \/ SyncFinish("A")
    \/ Acquire("A")
    \/ Check("A")
    \/ Check2("A")
    \/ Inject("A")
    \/ RetryInject("A")
    \/ RetryTimeout("A")
    \/ Tick("A")
    \/ PollEof("A")
    \/ PollStream("A")
    \/ Close("A")
    \/ Cleanup("A")
    \/ RefreshGoto("A")
    \/ RefreshParse("A")
    \/ StartGoto("A")
    \/ CooldownEnd("A")
    \/ XhrWrite(1, Events)
    \/ XhrDone(1, Events)

SpecSolo == Init /\ [][NextSolo]_vars

\* One client used for turn after turn, with or without a new_conversation
\* between two turns.
NextConv ==
    \/ StartStream("A", DefaultRetry)
    \/ \E k \in {"ask", "stream"} : SyncStart("A", k)
    \/ AsyncNewConversation("A")
    \/ SyncNewConversation("A")
    \/ NextTurn("A")
    \/ SyncCheck("A")
    \/ SyncInject("A")
    \/ SyncTick("A")
    \/ SyncPollEof("A")
    \/ SyncPollStream("A")
    \/ SyncFinish("A")
    \/ Acquire("A")
    \/ Check("A")
    \/ Check2("A")
    \/ Inject("A")
    \/ RetryInject("A")
    \/ RetryTimeout("A")
    \/ Tick("A")
    \/ PollEof("A")
    \/ PollStream("A")
    \/ Close("A")
    \/ Cleanup("A")
    \/ RefreshGoto("A")
    \/ RefreshParse("A")
    \/ StartGoto("A")
    \/ CooldownEnd("A")
    \/ \E i \in 1..2 : XhrWrite(i, PlainEvents)
    \/ \E i \in 1..2 : XhrDone(i, PlainEvents)
    \/ OrphanDone

SpecConv == Init /\ [][NextConv]_vars

\* ------------------------------------------------------------- properties
RefreshPcs == {"refresh_goto", "refresh_parse", "start_goto", "cooldown"}

\* A frame of c is inside the `async with AsyncChatGPT.lock` block.
InLock(c) ==
    \/ frames[c] > 0
    \/ pc[c] \in {"check", "check2", "inject", "poll", "poll_stream", "cleanup",
                  "suspended", "retry_inject", "retry_timeout"}
    \/ pc[c] \in RefreshPcs /\ ret[c] # "ask_again"

\* C1: at most one caller at a time is between acquiring and releasing the
\* lock, and the lock is taken whenever one is: injection, polling and cleanup
\* of two turns never interleave.
C1_MutualExclusion ==
    /\ Cardinality({c \in Callers : InLock(c)}) <= 1
    /\ (\E c \in Callers : InLock(c)) => locked

\* One task polls its markers while the other waits for the lock.
C1_Contention ==
    \E c, d \in Callers : c # d /\ pc[c] = "poll_stream" /\ pc[d] = "acquire" /\ locked

\* The retry of c waits for a lock that only c's own suspended frame can release.
SelfBlocked(c) ==
    /\ pc[c] = "acquire"
    /\ frames[c] > 0
    /\ locked
    /\ \A d \in Callers \ {c} : ~InLock(d)

\* C2: when every attempt times out, a call started with budget n makes one
\* attempt per budget unit and ends with NetworkError; it never blocks forever.
C2_TimeoutsEndInNetworkError ==
    \A c \in Callers :
        (hist[c].timeouts > 0 /\ hist[c].timeouts = hist[c].attempts) =>
            /\ ~SelfBlocked(c)
            /\ pc[c] = "done" =>
                 result[c] = "NetworkError" /\ hist[c].attempts = hist[c].budget0

\* C3: every way a turn ends or hands over to a retry leaves the lock free of
\* the frames of that turn.
C3_LockFreeAfterTurn ==
    \A c \in Callers :
        (\/ pc[c] \in {"done", "collect"}
         \/ pc[c] = "acquire" /\ hist[c].timeouts + hist[c].injectFails > 0)
        => ~(locked /\ frames[c] > 0)

\* C4: whenever a turn is about to inject, the page holds no stream or eof
\* marker of an earlier turn.
C4_CleanPageAtInjection ==
    \A c \in Callers : pc[c] = "inject" => streamDivs = <<>> /\ eofDivs = 0

\* C5: a turn that finds the session without accessToken ends by raising
\* NotLoggedInError, and nothing was injected into the page during it.
C5_NoCredentialRaises ==
    \A c \in Callers :
        hist[c].noCredential =>
            /\ pc[c] = "done"
            /\ result[c] = "NotLoggedInError"
            /\ hist[c].attempts = 0

\* The text the caller has received is the last message read (nothing when no
\* message was read).
FinalText(c) == IF hist[c].final = NoneMsg THEN <<>> ELSE hist[c].final

\* C6: in a turn whose messages each extend the one read before, the chunks
\* yielded so far, joined in order, are the last message read.
C6_ChunksRebuildMessage ==
    \A c \in Callers :
        (hist[c].mono /\ hist[c].final # NoneMsg) => Join(response[c]) = FinalText(c)

\* C7: a turn that ends with an error leaves parent_message_id and
\* conversation_id as they were when the turn started.
C7_FailedTurnKeepsConversation ==
    \A c \in Callers :
        result[c] \in Errors =>
            /\ parent_message_id[c] = hist[c].pmid0
            /\ conversation_id[c] = hist[c].conv0

AskRefreshing(c) == pc[c] = "ask_again" \/ (pc[c] \in RefreshPcs /\ ret[c] = "ask_again")

\* C8: ask answers an empty list of chunks with a session refresh and a re-run
\* with budget - 1; it starts at most its initial budget of streams, and when
\* every one of them stays empty it ends with an error, never with a value.
C8_EmptyResponseRetries ==
    \A c \in Callers :
        kind[c] = "ask" =>
            /\ hist[c].askCalls <= hist[c].budget0
            /\ askRetry[c] = hist[c].budget0 - hist[c].askRefreshes
            /\ hist[c].empties = hist[c].askRefreshes + (IF AskRefreshing(c) THEN 1 ELSE 0)
            /\ hist[c].askCalls \in {hist[c].empties, hist[c].empties + 1}
            /\ (pc[c] = "done" /\ result[c] = "value") => response[c] # <<>>
            /\ (pc[c] = "done" /\ hist[c].budget0 > 0 /\ hist[c].empties = hist[c].budget0) =>
                   result[c] = "ChatGPTResponseError"

\* C11: once the content of the stream marker has failed to decode, the turn
\* makes no further attempt and ends with ChatGPTResponseError.
C11_DecodeFailureRaises ==
    \A c \in Callers :
        hist[c].decodeFailed =>
            /\ pc[c] \in {"done", "s_finish"}
            /\ pc[c] = "done" => result[c] = "ChatGPTResponseError"

C13_DistinctErrorKinds ==
    \A c \in Callers :
        pc[c] = "done" =>
            /\ result[c] = "NotLoggedInError" => hist[c].noCredential
            /\ result[c] = "ChatGPTResponseError" => hist[c].decodeFailed
            /\ result[c] = "NetworkError" => ~hist[c].noCredential /\ ~hist[c].decodeFailed
            /\ (hist[c].noCredential \/ hist[c].decodeFailed) => result[c] \in Errors

\* C14: at most one iteration of the polling loop of an attempt starts after
\* the timeout has passed.
C14_PollingBounded ==
    \A c \in Callers : hist[c].late <= 1

\* C15: the attempt that follows an injection failure runs with the budget of
\* the attempt whose injection failed.
C15_InjectRetrySameBudget ==
    [][\A c \in Callers :
          (pc[c] = "retry_inject" /\ pc'[c] # "retry_inject") => retry'[c] = retry[c]]_vars

\* C16: every retry, whether after a timeout, after an injection failure or
\* after an empty response, runs with a strictly smaller budget than the attempt
\* that led to it.
C16_RetryBudgetDecreases ==
    [][\A c \in Callers :
          /\ (pc[c] \in {"retry_inject", "retry_timeout"} /\ pc'[c] = "acquire") =>
                 retry'[c] < retry[c]
          /\ (pc[c] = "ask_again" /\ pc'[c] = "ask") => askRetry'[c] < askRetry[c]]_vars

\* The stream divs created by the injections of caller c.
OwnDivs(c) == {i \in 1..Len(streamDivs) : streamDivs[i].owner = c}

\* C17: a loop that goes round again has not seen the eof marker, and a loop
\* left on eof has processed, in its last iteration, the final content of the
\* stream marker of its own request, which has completed.
C17_FinalDeltaDrained ==
    \A c \in Callers :
        /\ pc[c] \in {"poll", "s_poll"} => ~eof_seen[c]
        /\ (pc[c] = "cleanup" \/ (pc[c] = "s_finish" /\ eof_seen[c] /\ ~hist[c].decodeFailed)) =>
               \A i \in OwnDivs(c) :
                   /\ ~streamDivs[i].open
                   /\ ReadMessage(streamDivs[i].content) = full_event_message[c]

\* C18: an injection is made only with a session whose accessToken is there
\* and not empty.
C18_InjectionNeedsCredential ==
    [][\A c \in Callers :
          (pc[c] \in {"inject", "s_inject"} /\ pc'[c] \in {"poll", "s_poll"}) =>
              session = "token"]_vars

\* C19: the shared session is always a complete value; it changes only in the
\* one step of a refresh that assigns the parsed document; and parsing the same
\* document twice gives the session that parsing it once gives.
C19_RefreshAtomicIdempotent ==
    /\ \A doc \in Docs, old \in SessionValues :
           ParseSession(doc, ParseSession(doc, old)) = ParseSession(doc, old)
    /\ session \in SessionValues
    /\ [][/\ session' \in SessionValues
          /\ session' # session =>
                 \E c \in Callers : pc[c] = "refresh_parse" /\ pc'[c] = "start_goto"]_vars

\* A refresh made outside the lock has replaced the session while the other
\* task is about to read it.
C19_RefreshedUnderReader ==
    \E c, d \in Callers :
        /\ pc[c] = "start_goto" /\ ret[c] = "ask_again" /\ session = "noToken"
        /\ pc[d] = "check"

\* C20: from a new_conversation until the next injection the client holds the
\* freshly generated parent_message_id, no conversation_id and no title flag;
\* the request of that next injection carried exactly these.
C20_NewConversationResets ==
    \A c \in Callers :
        /\ hist[c].afterNew =>
               /\ parent_message_id[c] = Uuids[hist[c].news]
               /\ parent_message_id[c] \notin
                      {"u0"} \cup MsgIds \cup {Uuids[i] : i \in 1..(hist[c].news - 1)}
               /\ conversation_id[c] = "None"
               /\ ~conversation_title_set[c]
        /\ (hist[c].news > 0 /\ ~hist[c].afterNew) =>
               /\ hist[c].reqPmid = Uuids[hist[c].news]
               /\ hist[c].reqConv = "None"

\* A turn that follows the reset of a client whose conversation was c1 has
\* injected its request.
C20_TurnAfterReset ==
    \E c \in Callers :
        /\ hist[c].news = 1 /\ ~hist[c].afterNew /\ hist[c].resetFrom = "c1"
        /\ pc[c] \in {"poll", "s_poll"}
        /\ hist[c].reqConv = "None" /\ hist[c].reqPmid = "u1"

\* C9: after the cooldown of an access-denied load, _start_browser loads the
\* page again by itself.
C9_ReloadAfterCooldown ==
    [][\A c \in Callers :
          (pc[c] = "cooldown" /\ pc'[c] # "cooldown") => pc'[c] = "start_goto"]_vars

\* C10: no turn injects into the page while the enabled flag is cleared.
C10_NoInjectionWhileDisabled ==
    [][\A c \in Callers : (pc[c] = "inject" /\ pc'[c] = "poll") => enabled]_vars

\* C21: parent_message_id is never None, and a client that had no
\* conversation_id when a turn started still has none when that turn has failed.
C21_IdsValid ==
    \A c \in Callers :
        /\ parent_message_id[c] # "None"
        /\ (/\ pc[c] = "done"
            /\ result[c] \in Errors \/ hist[c].decodeFailed
            /\ hist[c].conv0 = "None") => conversation_id[c] = "None"

\* C22: the page never holds more than one stream marker or more than one eof
\* marker, and an attempt that polls reads the stream marker of its own
\* injection, with an empty last-seen text until it has read a message.
C22_OneMarkerEach ==
    /\ Len(streamDivs) <= 1
    /\ eofDivs <= 1
    /\ \A c \in Callers :
           pc[c] \in {"poll", "poll_stream", "s_poll", "s_poll_stream"} =>
               /\ streamDivs # <<>> => streamDivs[1].owner = c
               /\ hist[c].final = NoneMsg => last_event_msg[c] = <<>>

\* The refresh of c has navigated the page away and has not yet reloaded the site.
RefreshRunning(c) == pc[c] \in {"refresh_parse", "start_goto", "cooldown"}

\* C23: while the session refresh of one caller is under way, no other caller
\* is between its injection and the end of its cleanup.
C23_RefreshSingleFlight ==
    \A c, d \in Callers :
        (c # d /\ RefreshRunning(c)) =>
            pc[d] \notin {"inject", "poll", "poll_stream", "suspended", "cleanup"}

\* C24: the request of every injection carries, as parent_message_id and
\* conversation_id, the identifiers of the final event of the client's most
\* recent turn that ended by eof, or the generated identifier and None when
\* there has been none since the client was created or last reset.
C24_RequestsThreaded ==
    [][\A c \in Callers :
          (pc[c] \in {"inject", "s_inject"} /\ pc'[c] \in {"poll", "s_poll"}) =>
              /\ parent_message_id[c] = hist[c].threadPmid
              /\ conversation_id[c] = hist[c].threadConv]_vars

\* ask_stream of c comes to its end past _cleanup_divs, so that _gen_title runs.
TitleStep(c) == pc[c] = "s_finish" /\ pc'[c] = "done" /\ result'[c] # "PageError"

\* C25: the synchronous client sends a title request at the end of a turn
\* exactly when it has a conversation_id and the title flag is not set; the flag
\* is set by a successful request only and cleared by new_conversation only, so
\* between two resets at most one request succeeds, and after a failed request
\* the flag is still unset.
C25_TitleOncePerConversation ==
    /\ [](\A c \in Callers :
              /\ hist[c].titlesOk <= 1
              /\ conversation_title_set[c] <=> hist[c].titlesOk = 1)
    /\ [][\A c \in Callers :
              /\ TitleStep(c) =>
                     /\ hist'[c].titleRequests > hist[c].titleRequests <=>
                            (conversation_id[c] # "None" /\ ~conversation_title_set[c])
                     /\ conversation_title_set'[c] <=> hist'[c].titlesOk = 1
                     /\ hist'[c].titlesOk = hist[c].titlesOk =>
                            conversation_title_set'[c] = conversation_title_set[c]
              /\ (~conversation_title_set[c] /\ conversation_title_set'[c]) =>
                     TitleStep(c) /\ hist'[c].titlesOk = hist[c].titlesOk + 1
              /\ (conversation_title_set[c] /\ ~conversation_title_set'[c]) =>
                     hist'[c].news = hist[c].news + 1]_vars

\* A second turn of a conversation that already has its title has come to its
\* end without a title request.
C25_TitledTurnEnded ==
    \E c \in Callers :
        /\ hist[c].sync /\ hist[c].turns = 1 /\ hist[c].news = 0
        /\ pc[c] = "done" /\ result[c] = "completed"
        /\ conversation_title_set[c] /\ hist[c].titlesOk = 1
        /\ hist[c].titleRequests = 0 /\ hist[c].attempts = 1

\* C26: every iteration of a polling loop but the first starts after the idle
\* wait that ends the iteration before it, also when that iteration found no
\* stream marker.
C26_IdleWaitBetweenPolls ==
    \A c \in Callers : pc[c] \in {"poll", "s_poll"} => hist[c].idled

\* C27: the parse step of a session refresh always goes on to the reload of the
\* site without raising; when the document holds no JSON object the session is
\* left as it was, and when the session changes it is the object the document
\* holds.
C27_UnparsableKeepsSession ==
    [][\A c \in Callers :
          (pc[c] = "refresh_parse" /\ pc'[c] # "refresh_parse") =>
              /\ pc'[c] = "start_goto"
              /\ result'[c] = result[c]
              /\ hist'[c].doc = "unparsable" => session' = session
              /\ session' # session => session' = hist'[c].doc]_vars

\* A refresh has met a document without a JSON object while the session held a
\* token, and the token is still there.
C27_TokenKept ==
    \E c \in Callers :
        pc[c] = "start_goto" /\ hist[c].doc = "unparsable" /\ session = "token"

\* C28: every injection is made into the loaded chat page: a refresh that has
\* taken the page to the session endpoint has reloaded the site before any turn
\* injects.
C28_InjectionOnChatPage ==
    [][\A c \in Callers : (pc[c] = "inject" /\ pc'[c] = "poll") => loc = "chat"]_vars

\* C29: an attempt of async_ask_stream goes to the timeout retry only when it
\* has yielded no chunk, and a call that has yielded a chunk ends by eof, by
\* ChatGPTResponseError or by its consumer closing it.
C29_TimeoutRetryWithoutChunks ==
    /\ [](\A c \in Callers :
              (~hist[c].sync /\ pc[c] = "done" /\ response[c] # <<>>) =>
                  result[c] \in {"eof", "value", "closed", "ChatGPTResponseError"})
    /\ [][\A c \in Callers :
              (pc[c] = "poll" /\ pc'[c] = "refresh_goto") =>
                  response[c] = <<>> /\ hist[c].final = NoneMsg]_vars

====
